---- MODULE Spec2Model ----
(***************************************************************************)
(* WebSS screenshot service: the /screenshot endpoint (src/src/main.py),   *)
(* the capture session ScreenshotService.capture_screenshot                *)
(* (src/src/core/screenshot_service.py; src/src/main.py wraps the same     *)
(* body in the rate limiter), NavigationManager.navigate_with_retries      *)
(* (src/src/core/navigation.py) and the request validation of              *)
(* ScreenshotRequest (src/src/core/models.py).                             *)
(*                                                                         *)
(* Every request is a task that is suspended at each await; one action of  *)
(* the model is the code between two suspension points.  The browser       *)
(* engine is the environment: each engine call either returns or raises.   *)
(***************************************************************************)
EXTENDS Integers, Sequences, FiniteSets, TLC

(***************************************************************************)
(* Bounds of the model.                                                    *)
(***************************************************************************)
NumRequests == 2

Reqs == 1..NumRequests

(***************************************************************************)
(* Request inputs.  NoQuality stands for quality = None.                   *)
(***************************************************************************)
NoQuality == -1

NominalRaw ==
    [url |-> "https", width |-> 320, height |-> 240, format |-> "png",
     quality |-> NoQuality, delay |-> 0, timeout |-> 5000]

\* Field values on both sides of every limit of ScreenshotRequest.
RawVariants ==
       { [NominalRaw EXCEPT !.url = u] : u \in {"http", "ftp", "invalid"} }
  \cup { [NominalRaw EXCEPT !.width = w] : w \in {319, 3840, 3841} }
  \cup { [NominalRaw EXCEPT !.height = h] : h \in {239, 2160, 2161} }
  \cup { [NominalRaw EXCEPT !.delay = d] : d \in {-1, 30000, 30001} }
  \cup { [NominalRaw EXCEPT !.timeout = t] : t \in {4999, 120000, 120001} }
  \cup { [NominalRaw EXCEPT !.format = f, !.quality = q] :
             f \in {"png", "jpeg", "webp", "gif"},
             q \in {NoQuality, 0, 1, 100, 101} }

NominalOptions ==
    [output_format |-> "base64", selector |-> FALSE, aggressive_wait |-> FALSE,
     cookies |-> FALSE, block_ads |-> TRUE, block_images |-> FALSE,
     disable_animations |-> TRUE, smart_wait |-> TRUE, wait_for_network_idle |-> TRUE]

OptionProfiles ==
    { NominalOptions,
      [NominalOptions EXCEPT !.cookies = TRUE],
      [NominalOptions EXCEPT !.block_ads = FALSE, !.disable_animations = FALSE,
                             !.smart_wait = FALSE,
                             !.wait_for_network_idle = FALSE] }

OptionVariants ==
    { [o EXCEPT !.output_format = f, !.selector = s, !.aggressive_wait = a] :
          o \in OptionProfiles, f \in {"base64", "binary"},
          s \in BOOLEAN, a \in BOOLEAN }

MkRequest(raw, opt) == [raw |-> raw, opt |-> opt]

NominalRequest == MkRequest(NominalRaw, NominalOptions)

\* The requests a single client may send.
Inputs ==
       { MkRequest(NominalRaw, o) : o \in OptionVariants }
  \cup { MkRequest(v, NominalOptions) : v \in RawVariants }

\* The first request when several clients send requests together (the
\* other requests are nominal).
ConcInputs ==
    { NominalRequest,
      MkRequest(NominalRaw, [NominalOptions EXCEPT !.output_format = "binary"]) }

(***************************************************************************)
(* ScreenshotRequest: the field constraints and validate_quality.          *)
(***************************************************************************)
\* the URL of a video site, as final_content_check recognises it
YouTubeUrl == "https://www.youtube.com/watch"

\* 'youtube.com' in str(url) or 'youtu.be' in str(url)
MediaSite(u) == u = YouTubeUrl

HttpUrl(u) == u \in {"http", "https", YouTubeUrl}

\* validate_quality with the format comparison dropped.
validate_quality_any_format(q, format) == TRUE

validate_quality(q, format) == ~(q # NoQuality /\ format # "jpeg")

ScreenshotRequest(raw) ==
    /\ HttpUrl(raw.url)
    /\ raw.width >= 320 /\ raw.width <= 3840
    /\ raw.height >= 240 /\ raw.height <= 2160
    /\ raw.format \in {"png", "jpeg", "webp"}
    /\ (raw.quality # NoQuality => raw.quality >= 1 /\ raw.quality <= 100)
    /\ validate_quality(raw.quality, raw.format)
    /\ raw.delay >= 0 /\ raw.delay <= 30000
    /\ raw.timeout >= 5000 /\ raw.timeout <= 120000

(***************************************************************************)
(* Settings (src/src/config.py).  Settings is a BaseSettings class, so its *)
(* fields can be overridden by the environment.  default_delay is read by  *)
(* the delay calculation but is not a field of the class: reading it from  *)
(* a Settings object raises AttributeError (NoDefaultDelay).  The service  *)
(* of core/screenshot_service.py receives its settings object from the     *)
(* caller of its constructor, so both cases are kept: a settings object    *)
(* without the attribute, and one that defines it.                         *)
(***************************************************************************)
max_concurrent_browsers == 5

rate_limit_requests == 10

NoDefaultDelay == -1

DefaultDelayValues == {NoDefaultDelay, 2000}

Settings(delay, slots) ==
    [default_delay |-> delay, max_concurrent_browsers |-> slots,
     rate_limit_requests |-> rate_limit_requests]

(***************************************************************************)
(* The engine calls that may raise, per request.                           *)
(***************************************************************************)
FaultKinds ==
    {"launch", "new_context", "context_setup", "new_page", "setup_page",
     "goto", "settle", "status", "delay", "lookup", "capture", "render",
     "close", "cancel"}

\* Faults injected (into the first request) when several requests run together.
ConcFaultKinds == {"context_setup", "close", "cancel"}

\* The readiness steps, whose engine calls may time out as well: the content
\* readiness probe, the network-idle confirmation and the final content check.
ReadinessFaultKinds == {"probe", "network_idle", "final_check"}

(***************************************************************************)
(* navigate_with_retries: the strategy table.  A timeout multiplier is     *)
(* kept in tenths (1.2 is 12).                                             *)
(***************************************************************************)
Strategy(w, m, x) == [wait_until |-> w, timeout_multiplier |-> m, extra_wait |-> x]

wait_strategies(aggressive_wait) ==
    << Strategy("domcontentloaded", 10, 2000),
       Strategy("networkidle", 12, 3000),
       Strategy("load", 10, 4000),
       Strategy("commit", 8, 5000) >>
    \o (IF aggressive_wait
        THEN << Strategy("networkidle", 20, 8000),
                Strategy("domcontentloaded", 25, 10000) >>
        ELSE << >>)

\* one round more than max_retries
max_retries_one_more(aggressive_wait) == IF aggressive_wait THEN 4 ELSE 3

max_retries(aggressive_wait) == IF aggressive_wait THEN 3 ELSE 2

Max(a, b) == IF a >= b THEN a ELSE b

Min(a, b) == IF a <= b THEN a ELSE b

\* A duration of ms milliseconds in hundredths of a millisecond, the unit in
\* which the products of a timeout, a multiplier in tenths and 0.7 are exact.
Hundredths(ms) == ms * 100

\* current_timeout without the reduction of the later rounds
current_timeout_every_round(timeout, timeout_multiplier, attempt) ==
    timeout * timeout_multiplier * 10

\* base_timeout = timeout * strategy["timeout_multiplier"]
\* current_timeout = base_timeout if attempt == 0 else min(base_timeout * 0.7, 20000)
current_timeout(timeout, timeout_multiplier, attempt) ==
    LET base_timeout == timeout * timeout_multiplier * 10
    IN IF attempt = 0 THEN base_timeout
       ELSE Min((base_timeout * 7) \div 10, Hundredths(20000))

\* page.goto(url, timeout=15000, wait_until="commit")
fallback_timeout == Hundredths(15000)

\* await page.wait_for_timeout(8000)
fallback_settle == 8000

\* the sleep after a failed strategy attempt without its cap
attempt_backoff_uncapped(strategy_idx) == 10 + strategy_idx * 5

\* await asyncio.sleep(min(1 + strategy_idx * 0.5, 3)), in tenths of a second
attempt_backoff(strategy_idx) == Min(10 + strategy_idx * 5, 30)

\* retry_delay = 2 + attempt * 2, in tenths of a second
retry_delay(attempt) == 20 + attempt * 20

\* a sleep of navigate_with_retries: after the strategy attempt or after the
\* round of (0-based) position at
Sleep(kind, at, tenths) == [kind |-> kind, at |-> at, tenths |-> tenths]

\* one attempt more than max_attempts
max_attempts_one_more == 3 + 1

max_attempts == 3

NoStatus == 0

StatusCodes == {NoStatus, 200, 400, 500}

(***************************************************************************)
(* Image bytes.  An encoded image is a byte string whose header carries    *)
(* its dimensions; Image.open reads them back.  base64.b64encode maps      *)
(* three bytes to four characters of the 64-character alphabet (written    *)
(* as their index) and pads the last group with "=" (written Pad).         *)
(***************************************************************************)
\* the byte strings the engine's screenshot call may return
ImageSamples == {<<1, 1, 0>>, <<2, 1, 255, 16>>}

\* with Image.open(BytesIO(screenshot_bytes)) as img: size = {width, height}
ImageSize(bytes) == <<bytes[1], bytes[2]>>

Pad == 64

RECURSIVE b64encode(_)
b64encode(s) ==
    IF Len(s) = 0 THEN << >>
    ELSE IF Len(s) = 1
    THEN <<s[1] \div 4, (s[1] % 4) * 16, Pad, Pad>>
    ELSE IF Len(s) = 2
    THEN <<s[1] \div 4, (s[1] % 4) * 16 + (s[2] \div 16), (s[2] % 16) * 4, Pad>>
    ELSE <<s[1] \div 4, (s[1] % 4) * 16 + (s[2] \div 16),
           (s[2] % 16) * 4 + (s[3] \div 64), s[3] % 64>>
         \o b64encode(SubSeq(s, 4, Len(s)))

\* media_type=f"image/{request.format}"
MediaType(format) ==
    CASE format = "png" -> "image/png"
      [] format = "jpeg" -> "image/jpeg"
      [] format = "webp" -> "image/webp"
      [] OTHER -> "image/"

\* the size and data fields of a ScreenshotResponse
NoPayload == [data |-> << >>, size |-> << >>]

\* size=size, data=response_data (None unless output_format is base64)
SuccessPayload(output_format, bytes) ==
    [data |-> IF output_format = "base64" THEN b64encode(bytes) ELSE << >>,
     size |-> ImageSize(bytes)]

\* size={"width": 0, "height": 0}, data left None
FailurePayload == [data |-> << >>, size |-> <<0, 0>>]

(***************************************************************************)
(* Responses.                                                              *)
(***************************************************************************)
NoResponse == [kind |-> "none", success |-> FALSE, error |-> "", data |-> "", size |-> ""]

\* ScreenshotResponse(success=True, size=size, data=response_data)
SuccessResponse(output_format) ==
    [kind |-> "json", success |-> TRUE, error |-> "",
     data |-> IF output_format = "base64" THEN "b64(bytes)" ELSE "",
     size |-> "decoded"]

\* ScreenshotResponse(success=False, size={0,0}, error=str(e))
FailureResponse(e) ==
    [kind |-> "json", success |-> FALSE, error |-> e, data |-> "", size |-> "0x0"]

\* Response(content=screenshot_bytes, media_type=...)
BinaryResponse == [kind |-> "binary", success |-> TRUE, error |-> "", data |-> "bytes", size |-> ""]

\* raise HTTPException(status_code=500, detail=str(e))
Http500(e) == [kind |-> "http500", success |-> FALSE, error |-> e, data |-> "", size |-> ""]

\* the 422 answer of the request validation
Http422 == [kind |-> "http422", success |-> FALSE, error |-> "validation", data |-> "", size |-> ""]

\* the task was cancelled: no answer is produced
Cancelled == [kind |-> "cancelled", success |-> FALSE, error |-> "cancelled", data |-> "", size |-> ""]

(***************************************************************************)
(* The resource policy (core/resource_handler.py).  A URL is the sequence  *)
(* of its pieces: the scheme, then the labels of the host and the segments *)
(* of the path with their separators.  Python's `x in url` is the search   *)
(* for a contiguous run of pieces.                                         *)
(***************************************************************************)
Contains(s, sub) ==
    \E i \in 1..(Len(s) - Len(sub) + 1) : SubSeq(s, i, i + Len(sub) - 1) = sub

\* str.endswith
EndsWith(s, suffix) ==
    Len(suffix) <= Len(s) /\ SubSeq(s, Len(s) - Len(suffix) + 1, Len(s)) = suffix

\* str.lower, piece by piece
LowerPiece(piece) ==
    CASE piece = "Ads" -> "ads"
      [] piece = "DoubleClick" -> "doubleclick"
      [] OTHER -> piece

lower(url) == [i \in 1..Len(url) |-> LowerPiece(url[i])]

\* urlparse(url).netloc: what follows the scheme, up to the first "/" or "?"
NetlocEnd(url) ==
    IF \E i \in 2..Len(url) : url[i] \in {"/", "?"}
    THEN (CHOOSE i \in 2..Len(url) :
             /\ url[i] \in {"/", "?"}
             /\ \A j \in 2..(i - 1) : url[j] \notin {"/", "?"}) - 1
    ELSE Len(url)

netloc(url) == SubSeq(url, 2, NetlocEnd(url))

\* urlparse raises ValueError("Invalid IPv6 URL") on an unmatched bracket in
\* the netloc
Parsable(url) ==
    LET n == netloc(url)
        has(c) == \E i \in 1..Len(n) : n[i] = c
    IN has("[") <=> has("]")

\* ResourceHandler.__init__: the lists (an excerpt of each)
ResourceHandler ==
    [blocked_domains |->
        {<<"doubleclick", ".", "net">>, <<"adsystem", ".", "com">>,
         <<"facebook", ".", "com", "/", "tr">>},
     blocked_patterns |->
        {<<"doubleclick", ".", "net">>, <<"googlesyndication">>, <<"/", "pixel.gif">>},
     trusted_image_domains |->
        {<<"i", ".", "imgur", ".", "com">>, <<"imgur", ".", "com">>,
         <<"cloudfront", ".", "net">>},
     always_block_types |-> {"other"},
     explicit_ad_indicators |->
        {<<"/", "ads", "/">>, <<"/", "banner", "/">>, <<"adsystem", ".", "com">>,
         <<"googlesyndication">>, <<"doubleclick">>}]

\* _handle_image_request: the route calls it makes
handle_image_request(h, e, url) ==
    IF ~Parsable(e.url) \/ ~Parsable(e.page_url)
    THEN <<"continue">>                       \* except Exception
    ELSE LET request_domain == netloc(e.url)
             page_domain == netloc(e.page_url)
         IN IF \E trusted \in h.trusted_image_domains : Contains(request_domain, trusted)
            THEN <<"continue">>
            ELSE IF \/ request_domain = page_domain
                    \/ EndsWith(request_domain, <<".">> \o page_domain)
            THEN <<"continue">>
            ELSE IF \E indicator \in h.explicit_ad_indicators : Contains(url, indicator)
            THEN <<"abort">>
            ELSE <<"continue">>

\* handle_asset_request aborting on an explicit ad indicator in the URL
handle_asset_request_by_indicator(h, e) ==
    IF \E indicator \in h.explicit_ad_indicators : Contains(lower(e.url), indicator)
    THEN <<"abort">>
    ELSE <<"continue">>

\* _handle_asset_request: abort and return inside the try, else (also after
\* an exception) continue
handle_asset_request(h, e) ==
    LET inTry == IF /\ Parsable(e.url)
                    /\ \E d \in h.blocked_domains : Contains(netloc(e.url), d)
                 THEN <<"abort">>
                 ELSE << >>
    IN IF inTry # << >> THEN inTry ELSE inTry \o <<"continue">>

\* handle_request_calls testing the block lists before the image pass-through
handle_request_calls_blocklist_first(h, e) ==
    LET url == lower(e.url)
    IN IF \E d \in h.blocked_domains : Contains(url, d)
       THEN <<"abort">>
       ELSE IF \E pattern \in h.blocked_patterns : Contains(url, pattern)
       THEN <<"abort">>
       ELSE IF e.resource_type \in {"image", "media"} /\ e.block_images = FALSE
       THEN <<"continue">>
       ELSE IF e.resource_type \in h.always_block_types
       THEN <<"abort">>
       ELSE IF e.resource_type \in {"image", "media"}
       THEN handle_image_request(h, e, url)
       ELSE IF e.resource_type \in {"font", "stylesheet"}
       THEN handle_asset_request(h, e)
       ELSE <<"continue">>

\* handle_request_calls without the pass-through of images and media
handle_request_calls_without_image_rule(h, e) ==
    LET url == lower(e.url)
    IN IF \E d \in h.blocked_domains : Contains(url, d)
       THEN <<"abort">>
       ELSE IF \E pattern \in h.blocked_patterns : Contains(url, pattern)
       THEN <<"abort">>
       ELSE IF e.resource_type \in h.always_block_types
       THEN <<"abort">>
       ELSE IF e.resource_type \in {"image", "media"}
       THEN handle_image_request(h, e, url)
       ELSE IF e.resource_type \in {"font", "stylesheet"}
       THEN handle_asset_request(h, e)
       ELSE <<"continue">>

\* handle_request: the route calls it makes for the event e
handle_request_calls(h, e) ==
    LET url == lower(e.url)
    IN IF e.resource_type \in {"image", "media"} /\ e.block_images = FALSE
       THEN <<"continue">>
       ELSE IF \E d \in h.blocked_domains : Contains(url, d)
       THEN <<"abort">>
       ELSE IF \E pattern \in h.blocked_patterns : Contains(url, pattern)
       THEN <<"abort">>
       ELSE IF e.resource_type \in h.always_block_types
       THEN <<"abort">>
       ELSE IF e.resource_type \in {"image", "media"}
       THEN handle_image_request(h, e, url)
       ELSE IF e.resource_type \in {"font", "stylesheet"}
       THEN handle_asset_request(h, e)
       ELSE <<"continue">>

\* a handler that adds the host of every request it aborts to its block list
after_request_learning(h, e, calls) ==
    IF calls = <<"abort">> /\ Parsable(e.url) /\ netloc(e.url) # << >>
    THEN [h EXCEPT !.blocked_domains = @ \cup {netloc(e.url)}]
    ELSE h

\* The fields of the handler after a call: no method assigns to them.
after_request(h, e, calls) == h

\* The intercepted events: request URL, resource type, URL of the page's
\* frame, and the block_images flag of the screenshot request.
RequestUrls ==
    {<<"https://", "cdn", ".", "example", ".", "com", "/", "img", "/", "x.png">>,
     <<"https://", "example", ".", "com", "/", "ads", "/", "x.png">>,
     <<"https://", "other", ".", "com", "/", "img", "/", "x.png">>,
     <<"https://", "other", ".", "com", "/", "Ads", "/", "x.png">>,
     <<"https://", "i", ".", "imgur", ".", "com", "/", "banner", "/", "x.png">>,
     <<"https://", "doubleclick", ".", "net", "/", "x.js">>,
     <<"https://", "other", ".", "com", "/", "pixel.gif">>,
     <<"https://", "other", ".", "com", "/", "r", "?", "u=", "doubleclick", ".", "net">>,
     <<"https://", "other", ".", "com", "/", "r", "?", "u=", "adsystem", ".", "com">>,
     <<"https://", "adsystem", ".", "com", ".", "example", ".", "org", "/", "x.js">>,
     <<"https://", "[", "bad", "/", "ads", "/", "x.png">>,
     <<"https://", "[", "adsystem", ".", "com", "/", "x.js">>}

PageUrls ==
    {<<"https://", "example", ".", "com", "/">>,
     <<"https://", "other", ".", "com", "/", "page">>,
     <<"https://", "[", "bad", "/">>}

ResourceTypes == {"image", "media", "font", "stylesheet", "script", "other"}

Events ==
    [url : RequestUrls, resource_type : ResourceTypes, page_url : PageUrls,
     block_images : BOOLEAN]

\* the events interleaved with the one that recurs: the images and scripts
\* of a page load with image blocking on
OtherEvents ==
    {e \in Events : /\ e.resource_type \in {"image", "script"}
                    /\ e.block_images
                    /\ e.page_url = <<"https://", "example", ".", "com", "/">>}

NoEvent == [url |-> << >>, resource_type |-> "none", page_url |-> << >>,
            block_images |-> FALSE]

\* The route calls made for a request of a page: a context without a route
\* lets the request through without calling any handler.
route_calls(is_routed, h, e) ==
    IF is_routed THEN handle_request_calls(h, e) ELSE << >>

\* a request of a page and the route calls made for it
Subresource(e, calls) == [event |-> e, calls |-> calls]

NoSubresource == Subresource(NoEvent, << >>)

\* The requests the page of a session makes while it loads: a clean URL, a
\* block-listed one and one with an ad indicator, as every resource type.
SessionUrls ==
    {<<"https://", "cdn", ".", "example", ".", "com", "/", "img", "/", "x.png">>,
     <<"https://", "doubleclick", ".", "net", "/", "x.js">>,
     <<"https://", "other", ".", "com", "/", "Ads", "/", "x.png">>}

SessionEvents(block_images) ==
    {e \in Events : /\ e.url \in SessionUrls
                    /\ e.page_url = <<"https://", "example", ".", "com", "/">>
                    /\ e.block_images = block_images}

(***************************************************************************)
(* calculate_smart_delay (core/content_checker.py) as a function of the    *)
(* request fields it reads, settings.default_delay and the complexity      *)
(* score page.evaluate returns.                                            *)
(***************************************************************************)
\* return min(total_delay, 30000)
MaxDelay == 30000

\* page.evaluate raised: the except clause logs and goes on
ScoreError == -1

\* effective_delay without the final cap
effective_delay_uncapped(delay, default_delay, smart_wait, score, extra_wait_time) ==
    Max(delay, default_delay) + extra_wait_time

\* effective_delay with each floor added to the base delay
effective_delay_additive(delay, default_delay, smart_wait, score, extra_wait_time) ==
    LET base_delay == Max(delay, default_delay)
        adjusted == IF smart_wait /\ score # ScoreError
                    THEN IF score > 50 THEN base_delay + 8000
                         ELSE IF score > 30 THEN base_delay + 5000
                         ELSE IF score > 15 THEN base_delay + 3000
                         ELSE base_delay
                    ELSE base_delay
    IN Min(adjusted + extra_wait_time, MaxDelay)

\* effective_delay taking a failed measurement for the highest complexity
effective_delay_failure_as_complex(delay, default_delay, smart_wait, score, extra_wait_time) ==
    LET base_delay == Max(delay, default_delay)
        adjusted == IF smart_wait
                    THEN IF score > 50 \/ score = ScoreError THEN Max(base_delay, 8000)
                         ELSE IF score > 30 THEN Max(base_delay, 5000)
                         ELSE IF score > 15 THEN Max(base_delay, 3000)
                         ELSE base_delay
                    ELSE base_delay
    IN Min(adjusted + extra_wait_time, MaxDelay)

\* effective_delay with the floors of the lowest and highest tier exchanged
effective_delay_tiers_swapped(delay, default_delay, smart_wait, score, extra_wait_time) ==
    LET base_delay == Max(delay, default_delay)
        adjusted == IF smart_wait /\ score # ScoreError
                    THEN IF score > 50 THEN Max(base_delay, 3000)
                         ELSE IF score > 30 THEN Max(base_delay, 5000)
                         ELSE IF score > 15 THEN Max(base_delay, 8000)
                         ELSE base_delay
                    ELSE base_delay
    IN Min(adjusted + extra_wait_time, MaxDelay)

effective_delay(delay, default_delay, smart_wait, score, extra_wait_time) ==
    LET base_delay == Max(delay, default_delay)
        adjusted == IF smart_wait /\ score # ScoreError
                    THEN IF score > 50 THEN Max(base_delay, 8000)
                         ELSE IF score > 30 THEN Max(base_delay, 5000)
                         ELSE IF score > 15 THEN Max(base_delay, 3000)
                         ELSE base_delay
                    ELSE base_delay
        total_delay == adjusted + extra_wait_time
    IN Min(total_delay, MaxDelay)

\* delay: ge=0, le=30000; extra_wait_time: ge=0, le=15000
Delays == {0, 2000, 10000, 30000}
ExtraWaitTimes == {0, 1000, 15000}

\* values of settings.default_delay, below, at and above the cap
ConfiguredDelays == {0, 2000, 30000, 30001, 40000}

\* complexity scores at both sides of each threshold
Scores == {0, 15, 16, 30, 31, 50, 51, ScoreError}

DelayCalls ==
    [delay : Delays, default_delay : ConfiguredDelays, smart_wait : BOOLEAN,
     score : Scores, extra_wait_time : ExtraWaitTimes]

NoCall == [delay |-> 0, default_delay |-> 0, smart_wait |-> FALSE, score |-> 0,
           extra_wait_time |-> 0]

NoDelay == -1

\* no page.goto has returned and no readiness step has been run
NoReadiness == [settle |-> 0, probe |-> "skipped", idle |-> "skipped", final |-> "skipped"]

\* no /health request has been answered
NoAnswer == [status |-> "absent", browser |-> "absent", error |-> "", live |-> FALSE]

\* return {"status": "healthy", "browser": browser_status, ...}; live records
\* whether the process behind the handle was running when the answer was made
HealthAnswer(browser_status, live) ==
    [status |-> "healthy", browser |-> browser_status, error |-> "", live |-> live]

\* except Exception as e: return {"status": "unhealthy", "error": str(e), ...}
HealthError(e, live) ==
    [status |-> "unhealthy", browser |-> "absent", error |-> e, live |-> live]

VARIABLES
    req,          \* req[r]: the request as received
    settings,     \* the Settings object of the service
    faulty,       \* faulty[r]: the engine calls that may raise for r
    browser,      \* ScreenshotService.browser: "none" or "live"
    launches,     \* number of browser processes launched
    permits,      \* entries in the throttler's log (acquisitions in the period)
    pc,           \* pc[r]: the await the task of r is suspended at
    pass,         \* 1: screenshot_service.capture_screenshot, 2: the endpoint's binary pass
    exc,          \* the exception in flight out of the session, or "none"
    result,       \* the value returned by capture_screenshot
    response,     \* the answer of the endpoint
    cancelled,    \* cancelled[r]: the task of r was cancelled
    context,      \* the local variable context: "none" or "bound"
    page,         \* the local variable page: "none" or "bound"
    ctxCreated, ctxClosed,     \* contexts created / closed for r
    pageCreated, pageClosed,   \* pages opened / closed for r
    navRound,     \* attempt (0-based round) of navigate_with_retries
    navIdx,       \* strategy_idx (0-based)
    navLog,       \* the page.goto calls of the current navigate_with_retries call
    navState,     \* "idle", "running", "returned", "raised"
    navStatus,    \* status of the response navigate_with_retries returned
    navTimeouts,  \* the timeout of each page.goto call of navLog (hundredths of a ms)
    readiness,    \* the settle wait and the readiness steps run after the last page.goto that returned
    navSleeps,    \* the asyncio.sleep calls of the current navigate_with_retries call
    firstAttempt,    \* the first strategy attempt made for r: "none", "returned", "raised"
    capAttempt,   \* attempt of take_screenshot_with_retry
    lookups,      \* query_selector calls of the current pass
    lastLookup,   \* "none", "found", "missing"
    capSleeps,    \* retry backoffs slept by take_screenshot_with_retry
    shots,        \* screenshot calls of the current pass
    delayed,      \* calculate_smart_delay was entered in the current pass
    checked,      \* final_content_check was run in the current pass
    finalChecks,  \* the waits final_content_check made, each with its outcome
    styled,       \* the style tag of setup_page_for_heavy_sites is in the page's document
    routed,       \* handle_request is registered as the route of the context
    subresource,  \* the last request the page made, and the route calls made for it
    screenshot_bytes,  \* the bytes the capture step of the current pass returned
    sized,        \* the bytes Image.open computed the size of the result from
    payload,      \* the size and data fields of result
    acquired,     \* acquired[r]: permits r has taken from the throttler
    hpc,          \* the await a /health request is suspended at, or "idle"
    health,       \* the last answer of /health
    probes,       \* /health requests received
    closeCalls,   \* one entry for each call of cleanup, in order
    handler,      \* the fields of the ResourceHandler of the service
    event,        \* the intercepted event handled last
    answers,      \* the route calls handle_request made for it
    probe,        \* an event that is intercepted again and again
    other,        \* another event of the same page load
    probeLog,     \* the route calls made each time probe was handled
    interleaved,  \* another event was handled after probe was first handled
    delayCall,    \* the arguments of a call of calculate_smart_delay
    delayResult   \* the delay it returned

inputVars == <<req, settings, faulty>>
serviceVars == <<browser, launches, permits>>
taskVars == <<pc, pass, exc, result, response, cancelled>>
handleVars == <<context, page, ctxCreated, ctxClosed, pageCreated, pageClosed>>
navVars == <<navRound, navIdx, navLog, navState, navStatus, navTimeouts, readiness,
            firstAttempt, navSleeps>>
capVars == <<capAttempt, lookups, lastLookup, capSleeps, shots>>
stepVars == <<delayed, checked, finalChecks, styled, routed, subresource>>
dataVars == <<screenshot_bytes, sized, payload>>
lifeVars == <<hpc, health, probes, closeCalls>>
policyVars == <<handler, event, answers, probe, other, probeLog, interleaved>>
delayVars == <<delayCall, delayResult>>
outsideVars == <<lifeVars, policyVars, delayVars>>

vars == <<inputVars, serviceVars, taskVars, handleVars, navVars, capVars, stepVars,
          dataVars, acquired, outsideVars>>

\* No /health request and no cleanup call yet.
LifeIdle ==
    /\ hpc = "idle"
    /\ health = NoAnswer
    /\ probes = 0
    /\ closeCalls = << >>

\* The handler as constructed; no event intercepted.
PolicyIdle ==
    /\ handler = ResourceHandler
    /\ event = NoEvent
    /\ answers = << >>
    /\ probe = NoEvent
    /\ other = NoEvent
    /\ probeLog = << >>
    /\ interleaved = FALSE

\* The service as constructed, no request in progress.
SessionState ==
    /\ browser = "none"
    /\ launches = 0
    /\ permits = 0
    /\ pass = [r \in Reqs |-> 1]
    /\ exc = [r \in Reqs |-> "none"]
    /\ result = [r \in Reqs |-> NoResponse]
    /\ response = [r \in Reqs |-> NoResponse]
    /\ cancelled = [r \in Reqs |-> FALSE]
    /\ context = [r \in Reqs |-> "none"]
    /\ page = [r \in Reqs |-> "none"]
    /\ ctxCreated = [r \in Reqs |-> 0]
    /\ ctxClosed = [r \in Reqs |-> 0]
    /\ pageCreated = [r \in Reqs |-> 0]
    /\ pageClosed = [r \in Reqs |-> 0]
    /\ navRound = [r \in Reqs |-> 0]
    /\ navIdx = [r \in Reqs |-> 0]
    /\ navLog = [r \in Reqs |-> << >>]
    /\ navState = [r \in Reqs |-> "idle"]
    /\ navStatus = [r \in Reqs |-> NoStatus]
    /\ navTimeouts = [r \in Reqs |-> << >>]
    /\ readiness = [r \in Reqs |-> NoReadiness]
    /\ firstAttempt = [r \in Reqs |-> "none"]
    /\ navSleeps = [r \in Reqs |-> << >>]
    /\ capAttempt = [r \in Reqs |-> 0]
    /\ lookups = [r \in Reqs |-> 0]
    /\ lastLookup = [r \in Reqs |-> "none"]
    /\ capSleeps = [r \in Reqs |-> << >>]
    /\ shots = [r \in Reqs |-> 0]
    /\ delayed = [r \in Reqs |-> FALSE]
    /\ checked = [r \in Reqs |-> FALSE]
    /\ finalChecks = [r \in Reqs |-> << >>]
    /\ styled = [r \in Reqs |-> FALSE]
    /\ routed = [r \in Reqs |-> FALSE]
    /\ subresource = [r \in Reqs |-> NoSubresource]
    /\ screenshot_bytes = [r \in Reqs |-> << >>]
    /\ sized = [r \in Reqs |-> << >>]
    /\ payload = [r \in Reqs |-> NoPayload]
    /\ acquired = [r \in Reqs |-> 0]

\* calculate_smart_delay has not been called on its own.
DelayIdle ==
    /\ delayCall = NoCall
    /\ delayResult = NoDelay

InitState ==
    /\ LifeIdle
    /\ PolicyIdle
    /\ DelayIdle
    /\ SessionState

\* One client: request 1 is received, with any input and any engine fault.
Init ==
    /\ InitState
    /\ \E i \in Inputs : req = [r \in Reqs |-> IF r = 1 THEN i ELSE NominalRequest]
    /\ \E d \in DefaultDelayValues : settings = Settings(d, max_concurrent_browsers)
    /\ faulty = [r \in Reqs |-> FaultKinds]
    /\ pc = [r \in Reqs |-> IF r = 1 THEN "received" ELSE "absent"]

\* Scenario E: all requests are submitted together, with fewer session slots
\* than requests.
InitConc ==
    /\ InitState
    /\ \E i \in ConcInputs : req = [r \in Reqs |-> IF r = 1 THEN i ELSE NominalRequest]
    /\ \E n \in 1..(NumRequests - 1) : settings = Settings(2000, n)
    /\ faulty = [r \in Reqs |-> IF r = 1 THEN ConcFaultKinds ELSE {}]
    /\ pc = [r \in Reqs |-> "received"]

(***************************************************************************)
(* Helpers.                                                                *)
(***************************************************************************)
\* The outcomes of an engine call: TRUE it returns, FALSE it raises.
Outcomes(r, call) == IF call \in faulty[r] THEN BOOLEAN ELSE {TRUE}

\* The outcomes of a readiness step: skipped when it is not due, and when it
\* is run the wait is over in time or times out.
ReadinessOutcomes(r, due, call) ==
    IF ~due THEN {"skipped"}
    ELSE IF call \in faulty[r] THEN {"passed", "failed"} ELSE {"passed"}

\* The status of the response page.goto returns (NoStatus: no response).
Statuses(r) == IF "status" \in faulty[r] THEN StatusCodes ELSE {200}

\* The bytes a screenshot call may return: the page may render differently
\* from one capture to the next.
Images(r) ==
    IF "render" \in faulty[r] THEN ImageSamples
    ELSE {CHOOSE b \in ImageSamples : \A c \in ImageSamples : Len(b) <= Len(c)}

\* page.query_selector: TRUE an element, FALSE None.
Lookups(r) == IF "lookup" \in faulty[r] THEN BOOLEAN ELSE {TRUE}

\* The task of r goes on to its next await.
Proceed(r, next) ==
    /\ pc' = [pc EXCEPT ![r] = next]
    /\ UNCHANGED <<exc, result, payload, payload>>

\* Exception e leaves the try body.  In capture_screenshot the handler
\* `except Exception` returns the failure response and the finally clause
\* runs; the binary pass of the endpoint has a finally clause only.
Raise(r, e) ==
    /\ pc' = [pc EXCEPT ![r] = "close_page"]
    /\ IF pass[r] = 1
       THEN /\ result' = [result EXCEPT ![r] = FailureResponse(e)]
            /\ payload' = [payload EXCEPT ![r] = FailurePayload]
            /\ exc' = exc
       ELSE /\ exc' = [exc EXCEPT ![r] = e]
            /\ UNCHANGED <<result, payload, payload>>

\* if not response or response.status >= 400
BadStatus(status) == status = NoStatus \/ status >= 400

\* NextAttempt leaving the retry loop after the first round.
NextAttempt_one_round(round, idx, n) ==
    IF idx + 1 < n THEN <<round, idx + 1>> ELSE <<round + 3, 0>>

\* The position tried after a failed strategy attempt: the next strategy of
\* the round, or the first strategy of the next round.
NextAttempt(round, idx, n) ==
    IF idx + 1 < n THEN <<round, idx + 1>> ELSE <<round + 1, 0>>

\* The rounds are over: the final fallback is tried.
InFallback(round, aggressive_wait) == round >= max_retries(aggressive_wait)

(***************************************************************************)
(* Request validation (FastAPI validates the body as ScreenshotRequest     *)
(* before the endpoint function is called).                                *)
(***************************************************************************)
validate_request(r) ==
    /\ pc[r] = "received"
    /\ IF ScreenshotRequest(req[r].raw)
       THEN /\ pc' = [pc EXCEPT ![r] = "throttle"]
            /\ response' = response
       ELSE /\ pc' = [pc EXCEPT ![r] = "done"]
            /\ response' = [response EXCEPT ![r] = Http422]
    /\ UNCHANGED <<inputVars, outsideVars, screenshot_bytes, sized, acquired, serviceVars, pass, exc, result, payload, cancelled,
                   handleVars, navVars, capVars, stepVars>>

(***************************************************************************)
(* async with throttler: a permit of the rate limiter is taken; nothing is *)
(* given back on exit, a log entry expires when its period has passed.     *)
(***************************************************************************)
throttler_acquire(r) ==
    /\ pc[r] = "throttle"
    /\ permits < settings.rate_limit_requests
    /\ permits' = permits + 1
    /\ acquired' = [acquired EXCEPT ![r] = @ + 1]
    /\ Proceed(r, "init_browser")
    /\ UNCHANGED <<inputVars, outsideVars, screenshot_bytes, sized, browser, launches, pass, response, cancelled, handleVars,
                   navVars, capVars, stepVars>>

throttler_expire ==
    /\ permits > 0
    /\ permits' = permits - 1
    /\ UNCHANGED <<inputVars, outsideVars, screenshot_bytes, sized, acquired, payload, browser, launches, taskVars, handleVars,
                   navVars, capVars, stepVars>>

(***************************************************************************)
(* create_context: init_browser, new_context, then headers, cookies and    *)
(* the route; the local variable context is bound when it returns.         *)
(***************************************************************************)
init_browser(r) ==
    /\ pc[r] = "init_browser"
    /\ Proceed(r, IF browser = "none" THEN "launch" ELSE "new_context")
    /\ UNCHANGED <<inputVars, outsideVars, screenshot_bytes, sized, acquired, serviceVars, pass, response, cancelled, handleVars,
                   navVars, capVars, stepVars>>

launch(r) ==
    /\ pc[r] = "launch"
    /\ \E ok \in Outcomes(r, "launch") :
          IF ok
          THEN /\ browser' = "live"
               /\ launches' = launches + 1
               /\ Proceed(r, "new_context")
          ELSE /\ UNCHANGED <<browser, launches>>
               /\ Raise(r, "launch")
    /\ UNCHANGED <<inputVars, outsideVars, screenshot_bytes, sized, acquired, permits, pass, response, cancelled, handleVars,
                   navVars, capVars, stepVars>>

new_context(r) ==
    /\ pc[r] = "new_context"
    /\ \E ok \in Outcomes(r, "new_context") :
          IF ok
          THEN /\ ctxCreated' = [ctxCreated EXCEPT ![r] = @ + 1]
               /\ Proceed(r, "context_setup")
          ELSE /\ ctxCreated' = ctxCreated
               /\ Raise(r, "new_context")
    /\ UNCHANGED <<inputVars, outsideVars, screenshot_bytes, sized, acquired, serviceVars, pass, response, cancelled, context, page,
                   ctxClosed, pageCreated, pageClosed, navVars, capVars, stepVars>>

\* context.route registered for every request of the context
route_registered_always(block_ads) == TRUE

\* if request.block_ads: await context.route("**/*", ...handle_request...)
route_registered(block_ads) == block_ads

create_context(r) ==
    /\ pc[r] = "context_setup"
    /\ \E ok \in Outcomes(r, "context_setup") :
          IF ok
          THEN /\ context' = [context EXCEPT ![r] = "bound"]
               /\ routed' = [routed EXCEPT ![r] = route_registered(req[r].opt.block_ads)]
               /\ Proceed(r, "new_page")
          ELSE /\ context' = context
               /\ routed' = routed
               /\ Raise(r, "context_setup")
    /\ UNCHANGED <<inputVars, outsideVars, screenshot_bytes, sized, acquired, serviceVars, pass, response, cancelled, page, ctxCreated,
                   ctxClosed, pageCreated, pageClosed, navVars, capVars,
                   delayed, checked, finalChecks, styled, subresource>>

new_page(r) ==
    /\ pc[r] = "new_page"
    /\ \E ok \in Outcomes(r, "new_page") :
          IF ok
          THEN /\ pageCreated' = [pageCreated EXCEPT ![r] = @ + 1]
               /\ page' = [page EXCEPT ![r] = "bound"]
               /\ Proceed(r, "setup_page")
          ELSE /\ UNCHANGED <<pageCreated, page>>
               /\ Raise(r, "new_page")
    /\ UNCHANGED <<inputVars, outsideVars, screenshot_bytes, sized, acquired, serviceVars, pass, response, cancelled, context, ctxCreated,
                   ctxClosed, pageClosed, navVars, capVars, stepVars>>

\* add_style_tag is awaited only when disable_animations is set, and it puts
\* a style element into the document the new page shows at that moment; the
\* call of navigate_with_retries follows.
setup_page_for_heavy_sites(r) ==
    /\ pc[r] = "setup_page"
    /\ \E ok \in (IF req[r].opt.disable_animations
                  THEN Outcomes(r, "setup_page") ELSE {TRUE}) :
          IF ok
          THEN /\ navState' = [navState EXCEPT ![r] = "running"]
               /\ styled' = [styled EXCEPT ![r] = req[r].opt.disable_animations]
               /\ Proceed(r, "navigate")
          ELSE /\ navState' = navState
               /\ styled' = styled
               /\ Raise(r, "setup_page")
    /\ UNCHANGED <<inputVars, outsideVars, screenshot_bytes, sized, acquired, serviceVars, pass, response, cancelled, handleVars,
                   navRound, navIdx, navLog, navStatus, navTimeouts, readiness,
                   firstAttempt, navSleeps, capVars, delayed, checked, finalChecks, routed,
                   subresource>>

(***************************************************************************)
(* navigate_with_retries: one strategy attempt, or the final fallback.     *)
(* An attempt is page.goto followed by the settle wait; the readiness      *)
(* probe and the network-idle confirmation swallow their own failures.     *)
(* On return capture_screenshot checks the status (the binary pass of the  *)
(* endpoint does not).                                                     *)
(***************************************************************************)
NavEntry(round, strategy, wait_until, ok) ==
    [round |-> round, strategy |-> strategy, wait_until |-> wait_until, ok |-> ok]

\* an attempt that returns only when its readiness steps were over in time
AttemptOk_when_ready(gotoOk, settleOk, ready, idle) ==
    gotoOk /\ settleOk /\ ready # "failed" /\ idle # "failed"

\* The attempt returns the response: page.goto and the settle wait did not
\* raise.  _wait_for_content_readiness and the wait_for_load_state call catch
\* their own exceptions.
AttemptOk(gotoOk, settleOk, ready, idle) == gotoOk /\ settleOk

\* Whether the style element of setup_page_for_heavy_sites is in the page's
\* document after one page.goto: a goto that loads the target replaces the
\* document the element was added to.
document_styled(was_styled, gotoOk) == IF gotoOk THEN FALSE ELSE was_styled

navigate_with_retries(r) ==
    /\ pc[r] = "navigate"
    /\ LET aggr == req[r].opt.aggressive_wait
           ws == wait_strategies(aggr)
           fallback == InFallback(navRound[r], aggr)
           strategy == ws[navIdx[r] + 1]
           idleDue == /\ ~fallback
                      /\ req[r].opt.wait_for_network_idle
                      /\ strategy.wait_until # "networkidle"
       IN \E gotoOk \in Outcomes(r, "goto"), settleOk \in Outcomes(r, "settle"),
             status \in Statuses(r),
             ready \in ReadinessOutcomes(r, req[r].opt.smart_wait, "probe"),
             idle \in ReadinessOutcomes(r, idleDue, "network_idle") :
             LET ok == AttemptOk(gotoOk, settleOk, ready, idle)
                 entry == IF fallback
                          THEN NavEntry(0, 0, "commit", ok)
                          ELSE NavEntry(navRound[r] + 1, navIdx[r] + 1,
                                        ws[navIdx[r] + 1].wait_until, ok)
                 next == NextAttempt(navRound[r], navIdx[r], Len(ws))
             IN /\ navLog' = [navLog EXCEPT ![r] = Append(@, entry)]
                /\ navTimeouts' = [navTimeouts EXCEPT ![r] = Append(@,
                      IF fallback THEN fallback_timeout
                      ELSE current_timeout(req[r].raw.timeout,
                                           strategy.timeout_multiplier, navRound[r]))]
                /\ firstAttempt' = [firstAttempt EXCEPT ![r] =
                      IF @ # "none" THEN @
                      ELSE IF ok THEN "returned" ELSE "raised"]
                /\ readiness' = [readiness EXCEPT ![r] =
                      IF gotoOk /\ settleOk
                      THEN [settle |-> IF fallback THEN fallback_settle
                                       ELSE strategy.extra_wait,
                            probe |-> ready, idle |-> idle, final |-> "skipped"]
                      ELSE @]
                /\ styled' = [styled EXCEPT ![r] = document_styled(@, gotoOk)]
                /\ navSleeps' = [navSleeps EXCEPT ![r] =
                      IF ok \/ fallback THEN @
                      ELSE @ \o << Sleep("attempt", navIdx[r], attempt_backoff(navIdx[r])) >>
                             \o (IF navIdx[r] + 1 = Len(ws) /\ navRound[r] < max_retries(aggr) - 1
                                 THEN << Sleep("round", navRound[r], retry_delay(navRound[r])) >>
                                 ELSE << >>)]
                /\ IF ok
                   THEN /\ navState' = [navState EXCEPT ![r] = "returned"]
                        /\ navStatus' = [navStatus EXCEPT ![r] = status]
                        /\ UNCHANGED <<navRound, navIdx>>
                        /\ IF pass[r] = 1 /\ BadStatus(status)
                           THEN Raise(r, "status")
                           ELSE Proceed(r, "delay")
                   ELSE IF fallback
                   THEN /\ navState' = [navState EXCEPT ![r] = "raised"]
                        /\ UNCHANGED <<navRound, navIdx, navStatus>>
                        /\ Raise(r, "navigation")
                   ELSE /\ navRound' = [navRound EXCEPT ![r] = next[1]]
                        /\ navIdx' = [navIdx EXCEPT ![r] = next[2]]
                        /\ UNCHANGED <<navState, navStatus>>
                        /\ Proceed(r, "navigate")
    /\ UNCHANGED <<inputVars, outsideVars, screenshot_bytes, sized, acquired, serviceVars, pass, response, cancelled, handleVars,
                   capVars, delayed, checked, finalChecks, routed, subresource>>

(***************************************************************************)
(* calculate_smart_delay and the wait it asks for.  The base delay reads   *)
(* settings.default_delay first.                                           *)
(***************************************************************************)
calculate_smart_delay(r) ==
    /\ pc[r] = "delay"
    /\ delayed' = [delayed EXCEPT ![r] = TRUE]
    /\ IF settings.default_delay = NoDefaultDelay
       THEN Raise(r, "default_delay")
       ELSE \E ok \in Outcomes(r, "delay") :
               IF ok THEN Proceed(r, "final_check") ELSE Raise(r, "delay")
    /\ UNCHANGED <<inputVars, outsideVars, screenshot_bytes, sized, acquired, serviceVars, pass, response, cancelled, handleVars,
                   navVars, capVars, checked, finalChecks, styled, routed, subresource>>

\* a wait of final_content_check and its outcome
Check(name, outcome) == [check |-> name, outcome |-> outcome]

\* The waits final_content_check makes, given the outcome each would have:
\* one try statement holds the image wait, the lazy-load wait and, for a
\* YouTube URL, the thumbnail wait, and the first timeout leaves it.
final_checks(smart_wait, media_site, image, lazy, site) ==
    IF ~smart_wait THEN << >>
    ELSE IF image = "failed" THEN << Check("image", image) >>
    ELSE IF lazy = "failed" THEN << Check("image", image), Check("lazy", lazy) >>
    ELSE << Check("image", image), Check("lazy", lazy) >>
         \o (IF media_site THEN << Check("site", site) >> ELSE << >>)

\* final_content_check: it returns at once without smart_wait; otherwise
\* every failure of its waits is caught inside.
final_content_check(r) ==
    /\ pc[r] = "final_check"
    /\ checked' = [checked EXCEPT ![r] = TRUE]
    /\ \E image, lazy, site \in ReadinessOutcomes(r, req[r].opt.smart_wait, "final_check") :
          LET made == final_checks(req[r].opt.smart_wait, MediaSite(req[r].raw.url),
                                   image, lazy, site)
          IN /\ finalChecks' = [finalChecks EXCEPT ![r] = made]
             /\ readiness' = [readiness EXCEPT ![r].final =
                   IF made = << >> THEN "skipped"
                   ELSE IF \E i \in 1..Len(made) : made[i].outcome = "failed"
                   THEN "failed" ELSE "passed"]
    /\ Proceed(r, "capture")
    /\ UNCHANGED <<inputVars, outsideVars, screenshot_bytes, sized, acquired, serviceVars, pass, response, cancelled, handleVars,
                   navRound, navIdx, navLog, navState, navStatus, navTimeouts,
                   firstAttempt, navSleeps, capVars, delayed, styled, routed, subresource>>

(***************************************************************************)
(* take_screenshot_with_retry: one iteration of its loop (pass 1), or the  *)
(* single capture of the binary pass.                                      *)
(***************************************************************************)
take_screenshot_with_retry(r) ==
    /\ pc[r] = "capture"
    /\ \E found \in Lookups(r), shotOk \in Outcomes(r, "capture"), bytes \in Images(r) :
          LET sel == req[r].opt.selector
              missing == sel /\ ~found
              ok == ~missing /\ shotOk
              e == IF missing THEN "element_not_found" ELSE "capture"
          IN /\ lookups' = [lookups EXCEPT ![r] = IF sel THEN @ + 1 ELSE @]
             /\ lastLookup' = [lastLookup EXCEPT ![r] =
                                  IF ~sel THEN @
                                  ELSE IF found THEN "found" ELSE "missing"]
             /\ shots' = [shots EXCEPT ![r] = IF missing THEN @ ELSE @ + 1]
             /\ IF ok
                THEN /\ UNCHANGED <<capAttempt, capSleeps, exc>>
                     /\ pc' = [pc EXCEPT ![r] = "close_page"]
                     /\ screenshot_bytes' = [screenshot_bytes EXCEPT ![r] = bytes]
                     /\ sized' = [sized EXCEPT ![r] = IF pass[r] = 1 THEN bytes ELSE @]
                     /\ result' = [result EXCEPT ![r] =
                                      IF pass[r] = 1
                                      THEN SuccessResponse(req[r].opt.output_format)
                                      ELSE @]
                     /\ payload' = [payload EXCEPT ![r] =
                                      IF pass[r] = 1
                                      THEN SuccessPayload(req[r].opt.output_format, bytes)
                                      ELSE @]
                ELSE IF pass[r] = 1 /\ capAttempt[r] # max_attempts - 1
                THEN /\ capSleeps' = [capSleeps EXCEPT ![r] = Append(@, 1 + capAttempt[r])]
                     /\ capAttempt' = [capAttempt EXCEPT ![r] = @ + 1]
                     /\ Proceed(r, "capture")
                     /\ UNCHANGED <<screenshot_bytes, sized>>
                ELSE /\ UNCHANGED <<capAttempt, capSleeps, screenshot_bytes, sized>>
                     /\ Raise(r, e)
    /\ UNCHANGED <<inputVars, outsideVars, acquired, serviceVars, pass, response, cancelled, handleVars,
                   navVars, stepVars>>

(***************************************************************************)
(* finally: if page: await page.close(); if context: await context.close() *)
(* An exception raised by a close replaces the return value (or the        *)
(* exception in flight) and skips the rest of the clause.                  *)
(***************************************************************************)
close_page(r) ==
    /\ pc[r] = "close_page"
    /\ IF page[r] = "bound"
       THEN \E ok \in Outcomes(r, "close") :
               IF ok
               THEN /\ pageClosed' = [pageClosed EXCEPT ![r] = @ + 1]
                    /\ Proceed(r, "close_context")
               ELSE /\ pageClosed' = pageClosed
                    /\ pc' = [pc EXCEPT ![r] = "exit"]
                    /\ exc' = [exc EXCEPT ![r] = "close"]
                    /\ UNCHANGED <<result, payload, payload>>
       ELSE /\ pageClosed' = pageClosed
            /\ Proceed(r, "close_context")
    /\ UNCHANGED <<inputVars, outsideVars, screenshot_bytes, sized, acquired, serviceVars, pass, response, cancelled, context, page,
                   ctxCreated, ctxClosed, pageCreated, navVars, capVars, stepVars>>

close_context(r) ==
    /\ pc[r] = "close_context"
    /\ IF context[r] = "bound"
       THEN \E ok \in Outcomes(r, "close") :
               IF ok
               THEN /\ ctxClosed' = [ctxClosed EXCEPT ![r] = @ + 1]
                    /\ Proceed(r, "exit")
               ELSE /\ ctxClosed' = ctxClosed
                    /\ pc' = [pc EXCEPT ![r] = "exit"]
                    /\ exc' = [exc EXCEPT ![r] = "close"]
                    /\ UNCHANGED <<result, payload, payload>>
       ELSE /\ ctxClosed' = ctxClosed
            /\ Proceed(r, "exit")
    /\ UNCHANGED <<inputVars, outsideVars, screenshot_bytes, sized, acquired, serviceVars, pass, response, cancelled, context, page,
                   ctxCreated, pageCreated, pageClosed, navVars, capVars, stepVars>>

(***************************************************************************)
(* The /screenshot endpoint after a session has ended.  An exception out   *)
(* of capture_screenshot or out of the binary pass becomes HTTP 500; a     *)
(* successful result with binary output starts the binary pass, which      *)
(* calls create_context again; otherwise the result is the answer.         *)
(***************************************************************************)
BinaryPass(r) ==
    /\ pass[r] = 1
    /\ exc[r] = "none"
    /\ req[r].opt.output_format = "binary"
    /\ result[r].success

capture_screenshot(r) ==
    /\ pc[r] = "exit"
    /\ IF BinaryPass(r)
       THEN /\ pass' = [pass EXCEPT ![r] = 2]
            /\ pc' = [pc EXCEPT ![r] = "init_browser"]
            /\ context' = [context EXCEPT ![r] = "none"]
            /\ page' = [page EXCEPT ![r] = "none"]
            /\ navRound' = [navRound EXCEPT ![r] = 0]
            /\ navIdx' = [navIdx EXCEPT ![r] = 0]
            /\ navLog' = [navLog EXCEPT ![r] = << >>]
            /\ navState' = [navState EXCEPT ![r] = "idle"]
            /\ navStatus' = [navStatus EXCEPT ![r] = NoStatus]
            /\ navTimeouts' = [navTimeouts EXCEPT ![r] = << >>]
            /\ readiness' = [readiness EXCEPT ![r] = NoReadiness]
            /\ firstAttempt' = firstAttempt
            /\ navSleeps' = [navSleeps EXCEPT ![r] = << >>]
            /\ capAttempt' = [capAttempt EXCEPT ![r] = 0]
            /\ lookups' = [lookups EXCEPT ![r] = 0]
            /\ lastLookup' = [lastLookup EXCEPT ![r] = "none"]
            /\ capSleeps' = [capSleeps EXCEPT ![r] = << >>]
            /\ shots' = [shots EXCEPT ![r] = 0]
            /\ delayed' = [delayed EXCEPT ![r] = FALSE]
            /\ checked' = [checked EXCEPT ![r] = FALSE]
            /\ finalChecks' = [finalChecks EXCEPT ![r] = << >>]
            /\ styled' = [styled EXCEPT ![r] = FALSE]
            /\ routed' = [routed EXCEPT ![r] = FALSE]
            /\ subresource' = [subresource EXCEPT ![r] = NoSubresource]
            /\ screenshot_bytes' = [screenshot_bytes EXCEPT ![r] = << >>]
            /\ response' = response
       ELSE /\ pc' = [pc EXCEPT ![r] = "done"]
            /\ response' = [response EXCEPT ![r] =
                  IF exc[r] = "cancelled" THEN Cancelled
                  ELSE IF exc[r] # "none" THEN Http500(exc[r])
                  ELSE IF pass[r] = 1 THEN result[r]
                  ELSE BinaryResponse]
            /\ UNCHANGED <<pass, context, page, navVars, capVars, stepVars, screenshot_bytes>>
    /\ UNCHANGED <<inputVars, outsideVars, sized, acquired, serviceVars, exc, result, payload, cancelled, ctxCreated,
                   ctxClosed, pageCreated, pageClosed>>

(***************************************************************************)
(* Cancellation of the task while it is suspended in the try body:         *)
(* CancelledError is not an Exception, so only the finally clause runs.    *)
(***************************************************************************)
TryBody ==
    {"throttle", "init_browser", "launch", "new_context", "context_setup",
     "new_page", "setup_page", "navigate", "delay", "final_check", "capture"}

cancel(r) ==
    /\ "cancel" \in faulty[r]
    /\ pc[r] \in TryBody
    /\ exc[r] = "none"
    /\ exc' = [exc EXCEPT ![r] = "cancelled"]
    /\ cancelled' = [cancelled EXCEPT ![r] = TRUE]
    /\ pc' = [pc EXCEPT ![r] = "close_page"]
    /\ UNCHANGED <<inputVars, outsideVars, screenshot_bytes, sized, acquired, serviceVars, pass, result, payload, response, handleVars,
                   navVars, capVars, stepVars>>

(***************************************************************************)
(* The life of the browser process outside the sessions: /health calls     *)
(* init_browser, and cleanup closes the browser at shutdown.               *)
(***************************************************************************)
\* the /health requests and the cleanup calls of a run
MaxProbes == 2
MaxCleanups == 2

\* self.browser is the handle of the process launched last
CurrentBrowser == IF browser = "none" THEN 0 ELSE launches

\* the processes browser.close() has been called on
ClosedBrowsers == {closeCalls[i].closed : i \in 1..Len(closeCalls)} \ {0}

\* the process behind self.browser is running
BrowserLive == browser # "none" /\ CurrentBrowser \notin ClosedBrowsers

\* health_check up to its first await: init_browser finds a handle and
\* returns, or starts a launch.
health_check ==
    /\ hpc = "idle"
    /\ probes < MaxProbes
    /\ probes' = probes + 1
    /\ IF browser = "none"
       THEN /\ hpc' = "launch"
            /\ health' = health
       ELSE /\ hpc' = "idle"
            /\ health' = HealthAnswer(IF browser # "none" THEN "healthy" ELSE "unhealthy",
                                      BrowserLive)
    /\ UNCHANGED <<inputVars, serviceVars, taskVars, handleVars, navVars, capVars,
                   stepVars, dataVars, acquired, closeCalls,
                   policyVars, delayVars>>

\* the launch started by health_check returns or raises
health_launch ==
    /\ hpc = "launch"
    /\ hpc' = "idle"
    /\ \E ok \in (IF \E r \in Reqs : "launch" \in faulty[r] THEN BOOLEAN ELSE {TRUE}) :
          IF ok
          THEN /\ browser' = "live"
               /\ launches' = launches + 1
               /\ health' = HealthAnswer("healthy", TRUE)
          ELSE /\ UNCHANGED <<browser, launches>>
               /\ health' = HealthError("launch", BrowserLive)
    /\ UNCHANGED <<inputVars, permits, taskVars, handleVars, navVars, capVars,
                   stepVars, dataVars, acquired, probes, closeCalls,
                   policyVars, delayVars>>

\* cleanup, called by shutdown_event once the requests have been served:
\* if self.browser: await self.browser.close().  The handle is kept.
cleanup ==
    /\ Len(closeCalls) < MaxCleanups
    /\ \A r \in Reqs : pc[r] \in {"absent", "done"}
    /\ closeCalls' = Append(closeCalls, [closed |-> CurrentBrowser, launched |-> launches])
    /\ UNCHANGED <<inputVars, serviceVars, taskVars, handleVars, navVars, capVars,
                   stepVars, dataVars, acquired, hpc, health, probes,
                   policyVars, delayVars>>

\* The page of session r requests a sub-resource while page.goto loads the
\* target; the route of the context, where one is registered, answers it.
route(r) ==
    /\ pc[r] = "navigate"
    /\ pass[r] = 1
    /\ \E e \in SessionEvents(req[r].opt.block_images) :
          subresource' = [subresource EXCEPT ![r] =
                             Subresource(e, route_calls(routed[r], handler, e))]
    /\ UNCHANGED <<inputVars, outsideVars, serviceVars, taskVars, handleVars, navVars,
                   capVars, dataVars, acquired,
                   delayed, checked, finalChecks, styled, routed>>

Next ==
    \/ \E r \in Reqs : validate_request(r)
    \/ \E r \in Reqs : throttler_acquire(r)
    \/ throttler_expire
    \/ \E r \in Reqs : init_browser(r)
    \/ \E r \in Reqs : launch(r)
    \/ \E r \in Reqs : new_context(r)
    \/ \E r \in Reqs : create_context(r)
    \/ \E r \in Reqs : new_page(r)
    \/ \E r \in Reqs : setup_page_for_heavy_sites(r)
    \/ \E r \in Reqs : navigate_with_retries(r)
    \/ \E r \in Reqs : calculate_smart_delay(r)
    \/ \E r \in Reqs : final_content_check(r)
    \/ \E r \in Reqs : take_screenshot_with_retry(r)
    \/ \E r \in Reqs : close_page(r)
    \/ \E r \in Reqs : close_context(r)
    \/ \E r \in Reqs : capture_screenshot(r)
    \/ \E r \in Reqs : cancel(r)

Spec == Init /\ [][Next]_vars

SpecConc == InitConc /\ [][Next]_vars

\* One client whose page is slow to get ready: every navigation and every
\* readiness step may time out, and the client may go away.
InitReady ==
    /\ InitState
    /\ \E o \in OptionVariants, u \in {NominalRaw.url, YouTubeUrl} :
          req = [r \in Reqs |-> IF r = 1 THEN MkRequest([NominalRaw EXCEPT !.url = u], o)
                                ELSE NominalRequest]
    /\ settings = Settings(2000, max_concurrent_browsers)
    /\ faulty = [r \in Reqs |-> ReadinessFaultKinds \cup {"goto", "cancel"}]
    /\ pc = [r \in Reqs |-> IF r = 1 THEN "received" ELSE "absent"]

SpecReady == InitReady /\ [][Next]_vars

\* One client, with and without ad blocking and image blocking, whose page
\* requests sub-resources while it loads.
InitRoute ==
    /\ InitState
    /\ \E o \in OptionProfiles, f \in {"base64", "binary"}, ads, images \in BOOLEAN :
          req = [r \in Reqs |->
                    IF r = 1
                    THEN MkRequest(NominalRaw, [o EXCEPT !.output_format = f, !.block_ads = ads,
                                                         !.block_images = images])
                    ELSE NominalRequest]
    /\ settings = Settings(2000, max_concurrent_browsers)
    /\ faulty = [r \in Reqs |-> {"context_setup", "cancel"}]
    /\ pc = [r \in Reqs |-> IF r = 1 THEN "received" ELSE "absent"]

NextRoute ==
    \/ Next
    \/ \E r \in Reqs : route(r)

SpecRoute == InitRoute /\ [][NextRoute]_vars

\* The requests, the /health requests and the shutdown of one service.
NextLife ==
    \/ Next
    \/ health_check
    \/ health_launch
    \/ cleanup

\* A service started lazily: the first session or the first /health request
\* launches the browser, and a launch may fail.
InitLife ==
    /\ InitState
    /\ req = [r \in Reqs |-> NominalRequest]
    /\ settings = Settings(2000, max_concurrent_browsers)
    /\ faulty = [r \in Reqs |-> IF r = 1 THEN {"launch", "cancel"} ELSE {}]
    /\ pc = [r \in Reqs |-> "received"]

SpecLife == InitLife /\ [][NextLife]_vars

(***************************************************************************)
(* The route of a context: handle_request is called for every intercepted  *)
(* sub-resource event, one call after the other on the one handler.        *)
(***************************************************************************)
\* the times the event probe is intercepted
MaxRepeats == 2

handle_request ==
    \E e \in {probe, other} :
        /\ e = probe => Len(probeLog) < MaxRepeats
        /\ LET calls == handle_request_calls(handler, e)
           IN /\ event' = e
              /\ answers' = calls
              /\ handler' = after_request(handler, e, calls)
              /\ probeLog' = IF e = probe THEN Append(probeLog, calls) ELSE probeLog
              /\ interleaved' = IF e # probe /\ probeLog # << >> THEN TRUE
                                ELSE interleaved
        /\ UNCHANGED <<inputVars, serviceVars, taskVars, handleVars, navVars, capVars,
                       stepVars, dataVars, acquired, lifeVars, delayVars,
                       probe, other>>

NextPolicy == handle_request

\* No request is in progress.
NoRequests ==
    /\ req = [r \in Reqs |-> NominalRequest]
    /\ settings = Settings(2000, max_concurrent_browsers)
    /\ faulty = [r \in Reqs |-> {}]
    /\ pc = [r \in Reqs |-> "absent"]

\* A context with the route installed, and any event as the one that recurs.
InitPolicy ==
    /\ LifeIdle
    /\ DelayIdle
    /\ SessionState
    /\ NoRequests
    /\ handler = ResourceHandler
    /\ event = NoEvent
    /\ answers = << >>
    /\ probe \in Events
    /\ other \in OtherEvents
    /\ probeLog = << >>
    /\ interleaved = FALSE

SpecPolicy == InitPolicy /\ [][NextPolicy]_vars

(***************************************************************************)
(* One call of calculate_smart_delay with any arguments.                   *)
(***************************************************************************)
smart_delay ==
    /\ delayResult = NoDelay
    /\ delayResult' = effective_delay(delayCall.delay, delayCall.default_delay,
                                      delayCall.smart_wait, delayCall.score,
                                      delayCall.extra_wait_time)
    /\ UNCHANGED <<inputVars, serviceVars, taskVars, handleVars, navVars, capVars,
                   stepVars, dataVars, acquired, lifeVars, policyVars, delayCall>>

NextDelay == smart_delay

InitDelay ==
    /\ LifeIdle
    /\ PolicyIdle
    /\ SessionState
    /\ NoRequests
    /\ delayCall \in DelayCalls
    /\ delayResult = NoDelay

SpecDelay == InitDelay /\ [][NextDelay]_vars

TypeOK ==
    /\ browser \in {"none", "live"}
    /\ permits \in 0..rate_limit_requests
    /\ \A r \in Reqs :
          /\ pass[r] \in {1, 2}
          /\ context[r] \in {"none", "bound"}
          /\ page[r] \in {"none", "bound"}
          /\ ctxClosed[r] <= ctxCreated[r] /\ ctxCreated[r] <= 2
          /\ pageClosed[r] <= pageCreated[r] /\ pageCreated[r] <= 2
          /\ navState[r] \in {"idle", "running", "returned", "raised"}
          /\ capAttempt[r] \in 0..(max_attempts - 1)

(***************************************************************************)
(* Properties.                                                             *)
(***************************************************************************)
Finished(r) == pc[r] = "done"

\* capture_screenshot (pass 1) or the binary pass has left its finally clause
SessionOver(r) == pc[r] \in {"exit", "done"}

\* C1: every context created for a request and every page opened in it is
\* closed exactly once before the session completes, on every exit path.
C1_HandlesClosedOnce ==
    \A r \in Reqs :
       /\ ctxClosed[r] <= ctxCreated[r]
       /\ pageClosed[r] <= pageCreated[r]
       /\ SessionOver(r) => /\ ctxClosed[r] = ctxCreated[r]
                            /\ pageClosed[r] = pageCreated[r]

\* The sessions that hold an open browser context.
OpenSessions == {r \in Reqs : ctxCreated[r] > ctxClosed[r]}

\* C2: at every moment the number of sessions holding an open browser
\* context is at most the configured maximum of concurrent sessions.
C2_ConcurrencyBound ==
    Cardinality(OpenSessions) <= settings.max_concurrent_browsers

\* The documented order: every round tries strategies 1..n, the rounds are
\* followed by the fallback (written <<0, 0>>).
DocumentedRounds(aggressive_wait) == IF aggressive_wait THEN 3 ELSE 2

DocumentedStrategies(aggressive_wait) == IF aggressive_wait THEN 6 ELSE 4

DocumentedOrder(aggressive_wait) ==
    LET n == DocumentedStrategies(aggressive_wait)
        total == DocumentedRounds(aggressive_wait) * n
    IN [i \in 1..(total + 1) |->
           IF i = total + 1 THEN <<0, 0>>
           ELSE <<((i - 1) \div n) + 1, ((i - 1) % n) + 1>>]

\* C3: navigate_with_retries issues its navigations in the documented
\* order, issues none after an attempt that succeeded, returns at the first
\* success, and raises only after every strategy of every round and the
\* fallback have been tried and have failed.
C3_NavigationOrder ==
    \A r \in Reqs :
       LET log == navLog[r]
           order == DocumentedOrder(req[r].opt.aggressive_wait)
       IN /\ Len(log) <= Len(order)
          /\ \A i \in 1..Len(log) :
                /\ <<log[i].round, log[i].strategy>> = order[i]
                /\ i < Len(log) => ~log[i].ok
          /\ (log # << >> /\ log[Len(log)].ok) <=> navState[r] = "returned"
          /\ navState[r] = "raised" =>
                /\ Len(log) = Len(order)
                /\ \A i \in 1..Len(log) : ~log[i].ok

\* C3 witness: in aggressive mode the three rounds of six strategies all
\* failed and the fallback, the 19th navigation, succeeded.
C3_Witness ==
    \E r \in Reqs :
       /\ req[r].opt.aggressive_wait
       /\ navState[r] = "returned"
       /\ Len(navLog[r]) = 19

\* C4: when every strategy attempt and the fallback fail, capture_screenshot
\* returns a response with success=false and an error, and performs no
\* delay, readiness confirmation or capture.
C4_ExhaustionFails ==
    \A r \in Reqs :
       (pass[r] = 1 /\ navState[r] = "raised") =>
          /\ ~delayed[r] /\ ~checked[r] /\ shots[r] = 0 /\ lookups[r] = 0
          /\ SessionOver(r) =>
                /\ exc[r] = "none"
                /\ result[r].kind = "json"
                /\ ~result[r].success
                /\ result[r].error # ""

C6_NoRawFault ==
    \A r \in Reqs :
       (Finished(r) /\ ScreenshotRequest(req[r].raw) /\ ~cancelled[r]) =>
          \/ response[r].kind = "binary"
          \/ /\ response[r].kind = "json"
             /\ response[r].success \/ response[r].error # ""

\* C7: when the selector resolves to no element the request ends with
\* success=false carrying the element-not-found error, and no image.
C7_MissingElementFails ==
    \A r \in Reqs :
       (Finished(r) /\ lastLookup[r] = "missing" /\ ~cancelled[r]) =>
          /\ response[r].kind = "json"
          /\ ~response[r].success
          /\ response[r].error = "element_not_found"
          /\ response[r].data = ""

\* C8: a missing element is terminal: the lookup is performed once, it is
\* not retried and no retry backoff is waited.
C8_LookupOnce ==
    \A r \in Reqs :
       lastLookup[r] = "missing" => lookups[r] = 1 /\ capSleeps[r] = << >>

\* The requests the specification calls invalid.
OutOfRange(raw) ==
    \/ raw.width < 320 \/ raw.width > 3840
    \/ raw.height < 240 \/ raw.height > 2160
    \/ raw.delay < 0 \/ raw.delay > 30000
    \/ raw.timeout < 5000 \/ raw.timeout > 120000
    \/ raw.quality # NoQuality /\ (raw.quality < 1 \/ raw.quality > 100)
    \/ raw.quality # NoQuality /\ raw.format # "jpeg"
    \/ raw.format \notin {"png", "jpeg", "webp"}
    \/ raw.url \notin {"http", "https", YouTubeUrl}

\* C9: an invalid request is rejected as a validation error and no browser
\* context or page is ever opened for it.
C9_InvalidRejected ==
    \A r \in Reqs :
       (OutOfRange(req[r].raw) /\ pc[r] \notin {"absent", "received"}) =>
          /\ Finished(r)
          /\ response[r] = Http422
          /\ ctxCreated[r] = 0
          /\ pageCreated[r] = 0

\* C9 witness: quality given with format png (Scenario B) was rejected.
C9_Witness ==
    \E r \in Reqs :
       /\ req[r].raw.format = "png"
       /\ req[r].raw.quality = 100
       /\ Finished(r)
       /\ response[r] = Http422

RECURSIVE b64decode(_)
b64decode(s) ==
    IF Len(s) < 4 THEN << >>
    ELSE IF s[3] = Pad
    THEN <<s[1] * 4 + (s[2] \div 16)>>
    ELSE IF s[4] = Pad
    THEN <<s[1] * 4 + (s[2] \div 16), (s[2] % 16) * 16 + (s[3] \div 4)>>
    ELSE <<s[1] * 4 + (s[2] \div 16), (s[2] % 16) * 16 + (s[3] \div 4),
           (s[3] % 4) * 64 + s[4]>>
         \o b64decode(SubSeq(s, 5, Len(s)))

\* the image bytes in the answer of the endpoint
Delivered(r) ==
    IF response[r].kind = "binary" THEN screenshot_bytes[r]
    ELSE b64decode(payload[r].data)

ContentType(r) ==
    IF response[r].kind = "binary" THEN MediaType(req[r].raw.format)
    ELSE "application/json"

Base64Shape(r) ==
    /\ response[r].kind = "json"
    /\ response[r].success
    /\ response[r].error = ""
    /\ payload[r].data # << >>
    /\ payload[r].size = ImageSize(b64decode(payload[r].data))

BinaryShape(r) ==
    /\ response[r].kind = "binary"
    /\ screenshot_bytes[r] # << >>
    /\ \/ req[r].raw.format = "png" /\ ContentType(r) = "image/png"
       \/ req[r].raw.format = "jpeg" /\ ContentType(r) = "image/jpeg"
       \/ req[r].raw.format = "webp" /\ ContentType(r) = "image/webp"

FailureShape(r) ==
    /\ response[r].kind = "json"
    /\ ~response[r].success
    /\ response[r].error # ""
    /\ payload[r].data = << >>
    /\ payload[r].size = <<0, 0>>

\* C12: the answer to a valid request that was not cancelled has one of
\* three shapes: the success record with non-empty data and the decoded
\* size (base64 output), the image bytes with media type image/<format>
\* (binary output), or the failure record with an error, no data and size
\* 0x0.
C12_ResultShapes ==
    \A r \in Reqs :
        Finished(r) /\ ScreenshotRequest(req[r].raw) /\ ~cancelled[r] =>
            \/ req[r].opt.output_format = "base64" /\ Base64Shape(r)
            \/ req[r].opt.output_format = "binary" /\ BinaryShape(r)
            \/ FailureShape(r)

\* launches that have been started and have not returned
LaunchesInProgress ==
    Cardinality({r \in Reqs : pc[r] = "launch"}) + (IF hpc = "launch" THEN 1 ELSE 0)

\* C13: under any interleaving of sessions and /health requests the browser
\* is launched at most once: at most one launch is in progress, none while
\* a browser handle exists, and no second process is ever launched.
C13_LaunchedOnce ==
    /\ launches <= 1
    /\ LaunchesInProgress <= 1
    /\ browser # "none" => LaunchesInProgress = 0

\* C14: at every call of cleanup, each browser process launched so far has
\* had close called on it exactly once, by this call or an earlier one.
C14_ClosedExactlyOnce ==
    \A i \in 1..Len(closeCalls) :
        \A b \in 1..closeCalls[i].launched :
            Cardinality({j \in 1..i : closeCalls[j].closed = b}) = 1

C16_HealthAnswer ==
    health # NoAnswer =>
        /\ health.status # "absent"
        /\ health.browser # "absent"
        /\ health.browser = "healthy" => health.live

\* a URL of the event could not be parsed
Unparsable(e) == ~Parsable(e.url) \/ ~Parsable(e.page_url)

\* C17: handle_request answers the route of every intercepted event exactly
\* once, with continue or abort, and when the request URL or the page URL
\* cannot be parsed the answer is continue (allow).
C17_AnsweredOnceFailOpen ==
    event # NoEvent =>
        /\ Len(answers) = 1
        /\ answers[1] \in {"continue", "abort"}
        /\ Unparsable(event) => answers = <<"continue">>

\* the verdict a route call stands for
Verdict(calls) ==
    IF calls = <<"continue">> THEN "allow"
    ELSE IF calls = <<"abort">> THEN "block"
    ELSE "none"

IsImage(e) == e.resource_type \in {"image", "media"}

Listed(text, list) == \E x \in list : Contains(text, x)

\* rule 4: without a domain to compare (a URL does not parse) the rule
\* fails open
ImageVerdict(e) ==
    IF Unparsable(e) THEN "allow"
    ELSE IF \/ Listed(netloc(e.url), ResourceHandler.trusted_image_domains)
            \/ netloc(e.url) = netloc(e.page_url)
            \/ EndsWith(netloc(e.url), <<".">> \o netloc(e.page_url))
    THEN "allow"
    ELSE IF Listed(lower(e.url), ResourceHandler.explicit_ad_indicators)
    THEN "block"
    ELSE "allow"

\* rule 5
AssetVerdict(e) ==
    IF Parsable(e.url) /\ Listed(netloc(e.url), ResourceHandler.blocked_domains)
    THEN "block"
    ELSE "allow"

\* the six rules in their documented order
DocumentedRules(e) ==
    << [matches |-> IsImage(e) /\ ~e.block_images, verdict |-> "allow"],
       [matches |-> \/ Listed(lower(e.url), ResourceHandler.blocked_domains)
                    \/ Listed(lower(e.url), ResourceHandler.blocked_patterns),
        verdict |-> "block"],
       [matches |-> e.resource_type = "other", verdict |-> "block"],
       [matches |-> IsImage(e), verdict |-> ImageVerdict(e)],
       [matches |-> e.resource_type \in {"font", "stylesheet"},
        verdict |-> AssetVerdict(e)],
       [matches |-> TRUE, verdict |-> "allow"] >>

FirstMatch(rules) ==
    rules[CHOOSE i \in 1..Len(rules) :
              rules[i].matches /\ \A j \in 1..(i - 1) : ~rules[j].matches]

C19_Deterministic ==
    /\ \A i, j \in 1..Len(probeLog) : probeLog[i] = probeLog[j]
    /\ handler = ResourceHandler

\* the recurring event was handled, then a different event with the other
\* answer, then the recurring event again
C19_Witness ==
    /\ Len(probeLog) = MaxRepeats
    /\ interleaved
    /\ event = probe
    /\ other # probe
    /\ handle_request_calls(handler, other) # answers

\* the delay returned is between max(userDelay, minimumDelay) and the cap
DelayInBounds ==
    /\ Max(delayCall.delay, delayCall.default_delay) <= delayResult
    /\ delayResult <= MaxDelay

\* C20 as stated: for every request, every configured minimum delay and
\* every score, the delay d returned by calculate_smart_delay satisfies
\* max(userDelay, minimumDelay) <= d <= 30000.
C20_DelayBounds == delayResult # NoDelay => DelayInBounds

\* C20 amended: the same when the configured minimum delay is at most the
\* cap of 30000 ms.
C20_DelayBoundsUpToCap ==
    delayResult # NoDelay /\ delayCall.default_delay <= MaxDelay => DelayInBounds

\* the cap is applied to a call whose user delay is already 30000 ms
C20_Witness ==
    /\ delayResult = MaxDelay
    /\ delayCall.default_delay <= MaxDelay
    /\ delayCall.delay = 30000
    /\ delayCall.extra_wait_time > 0

\* the delay of the call of this state, had the page's score been s
DelayAtScore(s) ==
    effective_delay(delayCall.delay, delayCall.default_delay, delayCall.smart_wait,
                    s, delayCall.extra_wait_time)

\* C21: with everything else equal, calculate_smart_delay is monotonic in the
\* complexity score: a page of a lower score never gets a longer delay than
\* the one returned for this call.
C21_MonotonicInScore ==
    delayResult # NoDelay /\ delayCall.score # ScoreError =>
        \A s \in Scores \ {ScoreError} :
            /\ s <= delayCall.score => DelayAtScore(s) <= delayResult
            /\ s >= delayCall.score => DelayAtScore(s) >= delayResult

\* a call in the highest tier whose delay is strictly longer than the delay
\* of the same call one tier lower
C21_Witness ==
    /\ delayResult # NoDelay
    /\ delayCall.smart_wait
    /\ delayCall.score = 51
    /\ DelayAtScore(50) < delayResult
    /\ DelayAtScore(16) < DelayAtScore(31)

\* a readiness step of the current session of r timed out
ReadinessFailed(r) ==
    \/ readiness[r].probe = "failed"
    \/ readiness[r].idle = "failed"
    \/ readiness[r].final = "failed"

\* the request was answered with the image
Answered(r) ==
    /\ response[r].success
    /\ response[r].kind = (IF req[r].opt.output_format = "binary" THEN "binary" ELSE "json")

\* C22: a timeout or error in a readiness step (the content-readiness probe
\* during navigation, the network-quiet confirmation, the final content
\* check) never turns the request into a failure and never causes a further
\* navigation attempt: the attempt it follows is the last one of the
\* navigation and has returned, and when no page.goto attempt is exhausted
\* and the client stays, the request is answered with the image.
C22_ReadinessNotFatal ==
    \A r \in Reqs :
        /\ ReadinessFailed(r) =>
              /\ navState[r] = "returned"
              /\ navLog[r][Len(navLog[r])].ok
              /\ \A i \in 1..(Len(navLog[r]) - 1) : ~navLog[r][i].ok
        /\ Finished(r) /\ ~cancelled[r] /\ navState[r] = "returned" => Answered(r)

\* all three readiness steps timed out after the first navigation attempt,
\* and the request was answered with the image
C22_Witness ==
    /\ Finished(1)
    /\ readiness[1].probe = "failed"
    /\ readiness[1].idle = "failed"
    /\ readiness[1].final = "failed"
    /\ Len(navLog[1]) = 1
    /\ Answered(1)

\* the attempts take_screenshot_with_retry has made for r: each attempt of a
\* request with a selector looks the element up, each other attempt captures
CaptureAttempts(r) == IF req[r].opt.selector THEN lookups[r] ELSE shots[r]

\* the errors a capture attempt raises
CaptureErrors == {"capture", "element_not_found"}

\* C23: take_screenshot_with_retry makes at most 3 capture attempts, waits k
\* seconds after failed attempt k (k = 1, 2), returns the bytes of the first
\* successful attempt, and raises the third attempt's error when all three
\* fail.
C23_CaptureRetry ==
    \A r \in Reqs : pass[r] = 1 =>
        /\ CaptureAttempts(r) <= 3
        /\ Len(capSleeps[r]) <= 2
        /\ \A k \in 1..Len(capSleeps[r]) : capSleeps[r][k] = k
        /\ pc[r] = "capture" =>
              /\ CaptureAttempts(r) = Len(capSleeps[r])
              /\ screenshot_bytes[r] = << >>
        /\ screenshot_bytes[r] # << >> =>
              /\ CaptureAttempts(r) = Len(capSleeps[r]) + 1
              /\ result[r].success
              /\ sized[r] = screenshot_bytes[r]
        /\ result[r].error \in CaptureErrors =>
              /\ CaptureAttempts(r) = 3
              /\ capSleeps[r] = <<1, 2>>
              /\ screenshot_bytes[r] = << >>
              /\ result[r].error = "element_not_found" <=> lastLookup[r] = "missing"

\* three attempts failed, the last one in the capture itself after the
\* element was found, and its error is the one raised
C23_Witness ==
    /\ pass[1] = 1
    /\ Finished(1)
    /\ capSleeps[1] = <<1, 2>>
    /\ CaptureAttempts(1) = 3
    /\ req[1].opt.selector
    /\ lastLookup[1] = "found"
    /\ result[1].error = "capture"

\* the first strategy attempt made for r returned a response of status below
\* 400 and the capture that followed succeeded
CleanFirstRun(r) == firstAttempt[r] = "returned" /\ sized[r] # << >>

\* C24: when the first strategy's navigation succeeds with a status below 400
\* and the capture succeeds, exactly one navigation is performed and the
\* response has success=true, with non-empty base64 data when base64 output
\* is requested, and a positive width and height.
C24_CleanRunAnswer ==
    \A r \in Reqs : Finished(r) /\ CleanFirstRun(r) =>
        /\ pass[r] = 1
        /\ Len(navLog[r]) = 1
        /\ response[r].success
        /\ req[r].opt.output_format = "base64" => payload[r].data # << >>
        /\ payload[r].size[1] > 0
        /\ payload[r].size[2] > 0

\* the steps of the current session of r that have been taken
ContextCreated(r) == ctxCreated[r] = pass[r]
PageOpened(r) == pageCreated[r] = pass[r]
PageSetUp(r) == navState[r] # "idle"
Navigated(r) == navState[r] = "returned"
CaptureStarted(r) == CaptureAttempts(r) > 0
PageClosed(r) == pageClosed[r] = pass[r]
ContextClosed(r) == ctxClosed[r] = pass[r]

DocumentedLimits(aggressive_wait) ==
    IF aggressive_wait THEN [rounds |-> 3, strategies |-> 6, navigations |-> 19]
    ELSE [rounds |-> 2, strategies |-> 4, navigations |-> 9]

\* C26: navigate_with_retries always terminates: it runs 2 rounds of 4
\* strategies in normal mode and 3 rounds of 6 strategies in aggressive mode,
\* so it issues at most 9 navigations in normal mode and at most 19 in
\* aggressive mode, the fallback included.  Every step of the loop issues one
\* navigation, the loop is left for good once it has returned or raised, and
\* it is never about to issue a navigation beyond the limit.
C26_NavigationBounded ==
    \A r \in Reqs :
        LET limit == DocumentedLimits(req[r].opt.aggressive_wait)
        IN /\ Len(navLog[r]) <= limit.navigations
           /\ \A i \in 1..Len(navLog[r]) :
                 /\ navLog[r][i].round <= limit.rounds
                 /\ navLog[r][i].strategy <= limit.strategies
           /\ pc[r] = "navigate" =>
                 /\ navState[r] = "running"
                 /\ Len(navLog[r]) < limit.navigations
           /\ Len(navLog[r]) = limit.navigations => navState[r] \in {"returned", "raised"}
           /\ navState[r] = "raised" => Len(navLog[r]) = limit.navigations

\* a call in normal mode that has raised after 2 rounds of 4 strategies and
\* the fallback
C26_Witness ==
    /\ ~req[1].opt.aggressive_wait
    /\ navState[1] = "raised"
    /\ Len(navLog[1]) = 9
    /\ navLog[1][8].round = 2
    /\ navLog[1][8].strategy = 4
    /\ navLog[1][9].round = 0

\* request.timeout times the multiplier of the strategy of the i-th
\* navigation of r, in hundredths of a millisecond
FirstRoundTimeout(r, i) ==
    req[r].raw.timeout
      * wait_strategies(req[r].opt.aggressive_wait)[navLog[r][i].strategy].timeout_multiplier
      * 10

\* the strategy attempts among the navigations of r (the fallback is logged
\* with round 0)
StrategyAttempts(r) == {i \in 1..Len(navLog[r]) : navLog[r][i].round >= 1}

\* C27: the timeout given to a strategy attempt is request.timeout times the
\* strategy's multiplier in the first round, and min(0.7 times that product,
\* 20000 ms) in every later round; so no attempt of a later round has a
\* timeout above 20000 ms and none has a timeout above its first-round value.
C27_AttemptTimeout ==
    \A r \in Reqs :
        /\ Len(navTimeouts[r]) = Len(navLog[r])
        /\ \A i \in StrategyAttempts(r) :
              LET product == FirstRoundTimeout(r, i)
                  given == navTimeouts[r][i]
              IN IF navLog[r][i].round = 1
                 THEN given = product
                 ELSE /\ \/ given * 10 = product * 7
                         \/ given = Hundredths(20000)
                      /\ given * 10 <= product * 7
                      /\ given <= Hundredths(20000)
                      /\ given <= product

\* a request with the longest timeout whose first attempt got 120000 ms and
\* whose first attempt of the second round got the cap of 20000 ms
C27_Witness ==
    /\ req[1].raw.timeout = 120000
    /\ Len(navLog[1]) >= 5
    /\ navLog[1][5].round = 2
    /\ navTimeouts[1][1] = Hundredths(120000)
    /\ navTimeouts[1][5] = Hundredths(20000)

\* C28: the time limits applied inside a request are nested within its
\* overall timeout budget: no navigation attempt is given a timeout larger
\* than request.timeout.
C28_TimeoutsNested ==
    \A r \in Reqs :
        \A i \in 1..Len(navTimeouts[r]) :
            navTimeouts[r][i] <= Hundredths(req[r].raw.timeout)

\* the fallback navigations among the navigations of r
Fallbacks(r) == {i \in 1..Len(navLog[r]) : navLog[r][i].round = 0}

\* C29: after every round has failed, exactly one fallback navigation is
\* made, with a 15000 ms timeout and the 'commit' condition, followed by a
\* fixed 8000 ms settle wait and, when smart_wait is set, one readiness probe
\* whose failure is ignored; if the fallback fails, the error reported for
\* the request is the fallback attempt's own failure.
C29_Fallback ==
    \A r \in Reqs :
        LET n == Len(navLog[r])
            rounds == max_retries(req[r].opt.aggressive_wait)
                        * Len(wait_strategies(req[r].opt.aggressive_wait))
        IN /\ Fallbacks(r) \subseteq {rounds + 1}
           /\ n > rounds => Fallbacks(r) = {n} /\ \A i \in 1..rounds : ~navLog[r][i].ok
           /\ (n = rounds /\ ~navLog[r][n].ok) => pc[r] = "navigate" \/ cancelled[r]
           /\ \A i \in Fallbacks(r) :
                 /\ navTimeouts[r][i] = Hundredths(15000)
                 /\ navLog[r][i].wait_until = "commit"
                 /\ navLog[r][i].ok =>
                       /\ navState[r] = "returned"
                       /\ readiness[r].settle = 8000
                       /\ readiness[r].probe = "skipped" <=> ~req[r].opt.smart_wait
                       /\ readiness[r].idle = "skipped"
                 /\ ~navLog[r][i].ok => navState[r] = "raised"
           /\ (Finished(r) /\ ~cancelled[r] /\ navState[r] = "raised") =>
                 /\ ~response[r].success
                 /\ response[r].error = "navigation"

\* the wait conditions of the four base strategies: content-parsed,
\* network-quiet, full-load, connection-committed
BaseConditions == <<"domcontentloaded", "networkidle", "load", "commit">>

\* C30: in aggressive mode exactly two strategies are appended after the
\* four base strategies, and both appended strategies use the network-quiet
\* wait condition with a timeout multiplier larger than that of every base
\* strategy: every attempt made is one of the four base strategies or, in
\* aggressive mode only, one of two such appended strategies.
C30_AggressiveStrategies ==
    \A r \in Reqs : \A i \in StrategyAttempts(r) :
        LET ws == wait_strategies(req[r].opt.aggressive_wait)
            s == navLog[r][i].strategy
        IN IF s <= Len(BaseConditions)
           THEN navLog[r][i].wait_until = BaseConditions[s]
           ELSE /\ req[r].opt.aggressive_wait
                /\ s <= Len(BaseConditions) + 2
                /\ navLog[r][i].wait_until = "networkidle"
                /\ \A b \in 1..Len(BaseConditions) :
                      ws[s].timeout_multiplier > ws[b].timeout_multiplier

\* the sleeps of r of one kind
SleepsOf(r, kind) == {i \in 1..Len(navSleeps[r]) : navSleeps[r][i].kind = kind}

\* the sleeps that follow the i-th navigation of r as documented: none after
\* an attempt that returned or after the fallback, the attempt backoff after
\* a failed strategy attempt, and then the round backoff when the attempt
\* was the last one of a round other than the last round
DocumentedSleeps(r, i) ==
    LET e == navLog[r][i]
        limit == DocumentedLimits(req[r].opt.aggressive_wait)
    IN IF e.ok \/ e.round = 0 THEN << >>
       ELSE << Sleep("attempt", e.strategy - 1,
                     IF 10 + 5 * (e.strategy - 1) <= 30
                     THEN 10 + 5 * (e.strategy - 1) ELSE 30) >>
            \o (IF e.strategy = limit.strategies /\ e.round < limit.rounds
                THEN << Sleep("round", e.round - 1, 20 + 20 * (e.round - 1)) >>
                ELSE << >>)

RECURSIVE SleepsUpTo(_, _)
SleepsUpTo(r, n) ==
    IF n = 0 THEN << >> ELSE SleepsUpTo(r, n - 1) \o DocumentedSleeps(r, n)

\* C31: after a failed strategy attempt at position i (0-based) the
\* controller waits min(1 + 0.5*i, 3) seconds, a value that never decreases
\* with i and never exceeds 3 s; after a failed round k (0-based) other than
\* the last it waits 2 + 2*k seconds, a value that increases with k; no round
\* backoff is waited after the last round.  (Sleeps in tenths of a second.)
C31_Backoff ==
    \A r \in Reqs :
        /\ navSleeps[r] = SleepsUpTo(r, Len(navLog[r]))
        /\ \A i \in 1..Len(navSleeps[r]) :
              LET s == navSleeps[r][i]
              IN /\ s.kind = "attempt" => s.tenths <= 30
                 /\ s.kind = "round" =>
                       s.at < DocumentedLimits(req[r].opt.aggressive_wait).rounds - 1
                 /\ \A j \in 1..Len(navSleeps[r]) :
                       LET u == navSleeps[r][j]
                       IN /\ (u.kind = "attempt" /\ s.kind = "attempt" /\ u.at <= s.at)
                             => u.tenths <= s.tenths
                          /\ (u.kind = "round" /\ s.kind = "round" /\ u.at < s.at)
                             => u.tenths < s.tenths

\* an aggressive call that has raised: the sleep after the sixth strategy was
\* capped at 3 s, rounds 0 and 1 were followed by sleeps of 2 s and 4 s, and
\* the last round by none
C31_Witness ==
    /\ req[1].opt.aggressive_wait
    /\ navState[1] = "raised"
    /\ \E i \in SleepsOf(1, "attempt") :
          navSleeps[1][i].at = 5 /\ navSleeps[1][i].tenths = 30
    /\ {navSleeps[1][i].tenths : i \in SleepsOf(1, "round")} = {20, 40}
    /\ navSleeps[1][Len(navSleeps[1])].kind = "attempt"

\* B of the call of this state: max(userDelay, configuredMinimumDelay),
\* raised to floor when it is below it
DocumentedBase(floor) ==
    LET b == IF delayCall.delay >= delayCall.default_delay
             THEN delayCall.delay ELSE delayCall.default_delay
    IN IF b >= floor THEN b ELSE floor

\* the floor documented for a score
DocumentedFloor(score) ==
    IF score > 50 THEN 8000
    ELSE IF score > 30 THEN 5000
    ELSE IF score > 15 THEN 3000
    ELSE 0

\* min(b + extraWaitTime, 30000)
DocumentedDelay(b) ==
    IF b + delayCall.extra_wait_time <= 30000
    THEN b + delayCall.extra_wait_time ELSE 30000

\* C32: calculate_smart_delay returns min(B + extraWaitTime, 30000) where
\* B = max(userDelay, configuredMinimumDelay) when smart_wait is off, and
\* when smart_wait is on B is that value raised to a floor of 8000 for
\* score > 50, 5000 for 30 < score <= 50, 3000 for 15 < score <= 30 and
\* unchanged for score <= 15; the floors replace the base delay, they are
\* never added to it, and are applied before extraWaitTime is added.
C32_DelayFormula ==
    (delayResult # NoDelay /\ delayCall.score # ScoreError) =>
        delayResult =
            DocumentedDelay(DocumentedBase(IF delayCall.smart_wait
                                           THEN DocumentedFloor(delayCall.score)
                                           ELSE 0))

\* a measured page of the highest tier: the floor of 8000 replaces the base
\* delay of 2000 and the extra wait is added to it
C32_Witness ==
    /\ delayCall.smart_wait
    /\ delayCall.score = 51
    /\ delayCall.delay = 2000
    /\ delayCall.default_delay = 2000
    /\ delayCall.extra_wait_time = 1000
    /\ delayResult = 9000

\* C33: when smart_wait is on and the complexity measurement fails,
\* calculate_smart_delay does not fail: it returns
\* min(max(userDelay, configuredMinimumDelay) + extraWaitTime, 30000), the
\* value it would return with smart_wait off.
C33_MeasurementFailure ==
    (delayResult # NoDelay /\ delayCall.smart_wait /\ delayCall.score = ScoreError) =>
        /\ delayResult = DocumentedDelay(DocumentedBase(0))
        /\ delayResult = effective_delay(delayCall.delay, delayCall.default_delay, FALSE,
                                         delayCall.score, delayCall.extra_wait_time)

\* a failed measurement with a base delay below every floor
C33_Witness ==
    /\ delayCall.smart_wait
    /\ delayCall.score = ScoreError
    /\ delayCall.delay = 0
    /\ delayCall.default_delay = 2000
    /\ delayCall.extra_wait_time = 1000
    /\ delayResult = 3000

\* C34: with block_images off, every image or media request is allowed,
\* including one whose URL matches the ad/tracker block-list, a block-pattern
\* or an explicit ad indicator: the image rule takes precedence over every
\* blocking rule.
C34_ImagesPassThrough ==
    (event # NoEvent /\ IsImage(event) /\ ~event.block_images) =>
        answers = <<"continue">>

\* a media request of a block-pattern URL on a foreign host, and an image
\* blocking flag that is off: it was allowed
C34_Witness ==
    /\ event.resource_type = "media"
    /\ ~event.block_images
    /\ Listed(lower(event.url), ResourceHandler.blocked_patterns)
    /\ ~Unparsable(event)
    /\ netloc(event.url) # netloc(event.page_url)
    /\ answers = <<"continue">>

\* the domain of the URL is a block-listed domain or one of its subdomains
DomainListed(url) ==
    /\ Parsable(url)
    /\ \E d \in ResourceHandler.blocked_domains :
          netloc(url) = d \/ EndsWith(netloc(url), <<".">> \o d)

\* C35: the block-list rule blocks a request only when the domain of its URL
\* matches a block-listed domain or when its URL contains a block-pattern; a
\* block-listed domain name that appears only in the path or query string of
\* a URL on an unlisted domain, or only as part of a longer unrelated host
\* name, does not cause a block.  (A script is blocked by no other rule; the
\* URLs considered are those that have a domain.)
C35_BlockListByDomain ==
    (/\ event # NoEvent
     /\ event.resource_type = "script"
     /\ Parsable(event.url)
     /\ answers = <<"abort">>) =>
        \/ DomainListed(lower(event.url))
        \/ Listed(lower(event.url), ResourceHandler.blocked_patterns)

\* the names of the waits final_content_check made for request r
ChecksMade(r) == {finalChecks[r][i].check : i \in 1..Len(finalChecks[r])}

\* C36: in final_content_check with smart_wait on the three checks time out
\* independently: the lazy-load check is run whether or not the image check
\* timed out, and for a video site the site-specific check is run whether or
\* not an earlier check timed out.
C36_ChecksIndependent ==
    \A r \in Reqs :
        (checked[r] /\ req[r].opt.smart_wait)
            => /\ "lazy" \in ChecksMade(r)
               /\ MediaSite(req[r].raw.url) => "site" \in ChecksMade(r)

\* C37: when disable_animations is requested, the injected style rule is in
\* the document that is captured: it is still in effect after navigation has
\* loaded the target page, at the moment of capture.
C37_StyleAtCapture ==
    \A r \in Reqs :
        (CaptureStarted(r) /\ req[r].opt.disable_animations) => styled[r]

\* the error request r ended with, "" or "none" without one
ErrorsOf(r) == {result[r].error, exc[r]}

\* C38: settings.default_delay, which the delay calculation reads, is defined
\* by the Settings object the service is built with, so computing the base
\* delay cannot fail: no request whose navigation succeeded ends with the
\* failure of that read instead of reaching the capture step.
C38_BaseDelayDefined ==
    \A r \in Reqs :
        (Navigated(r) /\ delayed[r]) => "default_delay" \notin ErrorsOf(r)

\* the request is a font or stylesheet request
IsAsset(e) == e.resource_type \in {"font", "stylesheet"}

\* the block-list/block-pattern rule of handle_request matches the URL
BlockListed(url) ==
    \/ Listed(lower(url), handler.blocked_domains)
    \/ Listed(lower(url), handler.blocked_patterns)

\* C39: every font or stylesheet request that is not already blocked by the
\* block-list/block-pattern rule is allowed: the block-list check inside the
\* font/stylesheet rule is never the rule that blocks a request.
C39_AssetRuleNeverBlocks ==
    (event # NoEvent /\ IsAsset(event) /\ ~BlockListed(event.url)) =>
        answers = <<"continue">>

\* a stylesheet of a URL with an explicit ad indicator that no block list
\* matches: it reached the font/stylesheet rule and was allowed
C39_Witness ==
    /\ event.resource_type = "stylesheet"
    /\ ~BlockListed(event.url)
    /\ Contains(lower(event.url), <<"/", "ads", "/">>)
    /\ Parsable(event.url)
    /\ answers = <<"continue">>

\* the route calls made for the last request of r's page abort it
Blocked(r) == \E i \in 1..Len(subresource[r].calls) : subresource[r].calls[i] = "abort"

=============================================================================
